---- MODULE Spec2Model ----
(***************************************************************************)
(* Distributed lock coordination of the NestJS monorepo template:          *)
(* DistributedLockService (acquireLock / releaseLock / isLocked over a     *)
(* shared cache-manager store with an in-process Map fallback) and         *)
(* DistributedLockInterceptor (the execution gate around a handler).       *)
(*                                                                         *)
(* Every `await` of the TypeScript source is an interleaving point: a      *)
(* call is one task whose pc names the await it is suspended at.  Code     *)
(* between two awaits runs as one atomic step (JavaScript run-to-          *)
(* completion).  Several tasks of one process share that process's         *)
(* dbLocks map and instanceId.  The store behind cacheManager is the one   *)
(* the cache module configures: a redis store that all processes share,    *)
(* or an in-memory store that each process has for itself.                 *)
(***************************************************************************)
EXTENDS Integers, FiniteSets, Sequences, TLC

VARIABLES
    now,           \* Date.now(), in milliseconds
    remoteUp,      \* whether the remote store answers (FALSE: get/set/del reject)
    remoteHung,    \* the remote store has stopped settling calls at all
    redis,         \* the redis store behind every cacheManager: lockKey -> entry
    memory,        \* per process: the in-memory store behind its cacheManager
    dbLocks,       \* per process: the dbLocks Map, lockKey -> entry
    cacheManager,  \* per process: whether a cacheManager was injected
    remoteStore,   \* which store the cache module gives cacheManager (StoreKinds)
    task,          \* per task: the call in flight, its locals and what its caller saw
    lease,         \* per process and key: expiry promised by its last granted acquire
    grants,        \* per process and key: the record that acquire wrote, and where
    ticks,         \* clock advances so far
    flips,         \* remote outages/recoveries so far
    calls          \* calls started so far

vars == <<now, remoteUp, remoteHung, redis, memory, dbLocks, cacheManager, remoteStore, task,
          lease, grants, ticks, flips, calls>>

----------------------------------------------------------------------------
(* Bounds of the exploration *)

MaxTicks == 2
MaxFlips == 1
MaxCalls == 2

(* The fleet: two worker processes; process A serves two overlapping calls *)
Procs == {"A", "B"}
Tasks == {"a1", "a2", "b1"}
ProcOf(t) == IF t = "b1" THEN "B" ELSE "A"
Keys == {"hourly-task", "daily-cleanup"}
\* a1 and b1 serve triggers of guarded handlers, a2 serves code of process A
\* that calls the lock service directly
GateTasks == {"a1", "b1"}
DirectTasks == {"a2"}

----------------------------------------------------------------------------
(* Constants and fields of DistributedLockService *)

Undef == -1
lockPrefix == "lock:"
defaultTtl == 60
defaultRetries == 0
defaultRetryDelay == 100
MsPerSecond == 1000
\* the clock is observed once per second
TickMs == MsPerSecond

InstanceId(p) == "pid-" \o p

LockKey(key) == lockPrefix \o key
LockKeys == {LockKey(k) : k \in Keys}

NoLock == [instanceId |-> "undefined", expiresAt |-> 0]
NoLease == Undef
NoGrant == [store |-> "none", expiresAt |-> 0]

\* Faulty variant: destructuring without defaults
DefaultMissing(v, d) == v

Default(v, d) == IF v = Undef THEN d ELSE v

(* LockOptions values the callers pass *)
LockOptions ==
    { [key |-> k, ttl |-> Undef, retries |-> Undef, retryDelay |-> Undef] : k \in Keys }
    \cup { [key |-> "hourly-task", ttl |-> 1, retries |-> 1, retryDelay |-> TickMs] }

BoolStr(b) == IF b THEN "true" ELSE "false"

IdleTask ==
    [ pc |-> "idle", op |-> "none", guarded |-> FALSE,
      key |-> "", lockKey |-> "", ttlMs |-> 0, retries |-> 0, retryDelay |-> 0,
      attempt |-> 0, wakeAt |-> 0, attempts |-> 0,
      lockAcquired |-> "none", fellBack |-> FALSE, heldAtCall |-> FALSE,
      handlerRuns |-> 0, releaseCalls |-> 0, relGet |-> 0, relDel |-> 0,
      outcome |-> "none", unhandled |-> FALSE ]

----------------------------------------------------------------------------
(* Store accesses *)

\* The store behind cacheManager is built by the cache module, outside the
\* lock service, and the service's code does not settle three things about
\* it.
\* shared: with cache.enabled the store is the redis server every process
\* connects to; without it (the default) or when that configuration throws,
\* cacheManager is an in-memory store of the process itself, which no other
\* process sees, which never fails to answer, and which is gone with its
\* process.
\* ttlUnit: the service passes `ttl * 1000` as the third argument of set.  A
\* store that counts TTLs in milliseconds, as the in-memory store is
\* configured and as the service takes its store to do, keeps the entry `ttl`
\* seconds; the redis store as the cache module configures it counts in
\* seconds and keeps it a thousand times as long.
\* keptAtExpiry: whether a get at the very millisecond the TTL ends still
\* returns the entry.  An entry of a store that counts in seconds lasts at
\* least 1000 s, the clock is followed for MaxTicks seconds, so the end of
\* its TTL is never read and one value of keptAtExpiry stands for both.
\* (The in-memory store is bounded to `max` entries, 100 unless configured;
\* a worker process stores its lock keys there and nothing else.)
StoreKinds ==
    {k \in [shared : BOOLEAN, ttlUnit : {1, MsPerSecond}, keptAtExpiry : BOOLEAN] :
        k.ttlUnit = MsPerSecond => (k.shared /\ ~k.keptAtExpiry)}

NoEntries == [lk \in LockKeys |-> NoLock]

\* The store the cacheManager of process p reads and writes
StoreOf(p) == IF remoteStore.shared THEN redis ELSE memory[p]

\* The stores after the cacheManager of process p wrote: `s` is its store
StoreWritten(p, s) ==
    /\ redis' = IF remoteStore.shared THEN s ELSE redis
    /\ memory' = IF remoteStore.shared THEN memory ELSE [memory EXCEPT ![p] = s]

\* An entry of the store behind cacheManager that a get at time t still
\* returns
RemoteLive(e, t) ==
    /\ e # NoLock
    /\ \/ e.expiresAt > t
       \/ remoteStore.keptAtExpiry /\ e.expiresAt = t

\* Faulty variant: a store whose entries never expire
CacheGetNoExpiry(store, lockKey, t) == store[lockKey].instanceId

\* cacheManager.get(lockKey): the value, or undefined once the entry's TTL passed
CacheGet(store, lockKey, t) ==
    IF RemoteLive(store[lockKey], t)
    THEN store[lockKey].instanceId
    ELSE "undefined"

\* Faulty variant: a write that stamps the owner with the time of the call
CacheSetStamped(store, lockKey, lockValue, ttl, t) ==
    [store EXCEPT ![lockKey] =
        [instanceId |-> lockValue \o "-t", expiresAt |-> t + ttl * remoteStore.ttlUnit]]

\* cacheManager.set(lockKey, lockValue, ttl): unconditional write; the entry
\* lasts `ttl` units of the store
CacheSet(store, lockKey, lockValue, ttl, t) ==
    [store EXCEPT ![lockKey] =
        [instanceId |-> lockValue, expiresAt |-> t + ttl * remoteStore.ttlUnit]]

\* this.dbLocks.get(lockKey) as the service reads it: the owner of the entry
\* unless `expiresAt < Date.now()`
DbGet(m, lockKey, t) ==
    IF m[lockKey] # NoLock /\ ~(m[lockKey].expiresAt < t)
    THEN m[lockKey].instanceId
    ELSE "undefined"

\* An entry of the Map that the service does not take as expired
\* (`expiresAt < Date.now()`)
Unexpired(e, t) == e # NoLock /\ e.expiresAt >= t

\* cacheManager.del(lockKey)
CacheDel(store, lockKey) == [store EXCEPT ![lockKey] = NoLock]

\* Faulty variant: a cleanup that empties the Map
cleanupEverything(m, t) == [lk \in LockKeys |-> NoLock]

\* Faulty variant: a cleanup that removes nothing
cleanupNothing(m, t) == m

\* cleanupExpiredLocks(): drop every entry with expiresAt < now
cleanupExpiredLocks(m, t) ==
    [lk \in LockKeys |-> IF m[lk] # NoLock /\ m[lk].expiresAt < t THEN NoLock ELSE m[lk]]

\* releaseLock, Map branch: delete the entry when it carries this instanceId
DbRelease(m, lockKey, id) ==
    IF m[lockKey] # NoLock /\ m[lockKey].instanceId = id
    THEN [m EXCEPT ![lockKey] = NoLock]
    ELSE m

----------------------------------------------------------------------------
(* DistributedLockInterceptor.intercept: what follows `await acquireLock` *)

\* The call is over: its locals are gone, what its caller saw remains
\* (and `attempts`, the number of acquisition attempts the store answered)
Finish(r) ==
    [r EXCEPT !.pc = "done", !.ttlMs = 0, !.retries = 0, !.retryDelay = 0,
              !.attempt = 0, !.wakeAt = 0, !.heldAtCall = FALSE]

\* Faulty variant: a refused trigger that calls the handler all the same
InterceptRefusedRunsHandler(r) ==
    [r EXCEPT !.pc = "work", !.lockAcquired = "false", !.handlerRuns = @ + 1]

\* lock refused: an Observable that only completes; the handler is not called
InterceptRefused(r) ==
    Finish([r EXCEPT !.lockAcquired = "false", !.outcome = "empty"])

\* lock acquired: next.handle() is subscribed, the handler starts
InterceptAcquired(r) ==
    [r EXCEPT !.pc = "work", !.lockAcquired = "true", !.handlerRuns = @ + 1,
              !.heldAtCall = FALSE]

\* Faulty variant: a tap without its error callback
TapReleasesNoError(ok) == IF ok THEN 2 ELSE 0

\* tap({next, error, complete}): releaseLock calls started when the handler
\* ends: next and complete on a value, error alone on a throw
TapReleases(ok) == IF ok THEN 2 ELSE 1

\* Faulty variant: a Map that always looks free
DbLockFreeAlways(m, lockKey, t) == TRUE

\* acquireLock resolves with `granted`: to intercept, or to a direct caller
AcquireReturns(r, granted) ==
    IF r.op = "gate"
    THEN IF granted THEN InterceptAcquired(r) ELSE InterceptRefused(r)
    ELSE Finish([r EXCEPT !.lockAcquired = BoolStr(granted),
                          !.outcome = BoolStr(granted)])

----------------------------------------------------------------------------
(* DistributedLockService.acquireDatabaseLock: one pass of its loop, from   *)
(* cleanupExpiredLocks() to the return or the `await delay`               *)

DbLockFree(m, lockKey, t) == m[lockKey] = NoLock \/ m[lockKey].expiresAt < t

\* Faulty variant: a fallback that looks into every process's Map
AcquireDatabaseLockShared(t, r0) ==
    LET p == ProcOf(t)
        r == [r0 EXCEPT !.attempts = @ + 1]
        cleaned == cleanupExpiredLocks(dbLocks[p], now)
    IN  IF \A q \in Procs : DbLockFree(cleanupExpiredLocks(dbLocks[q], now), r.lockKey, now)
        THEN /\ dbLocks' = [dbLocks EXCEPT ![p] =
                    [cleaned EXCEPT ![r.lockKey] =
                        [instanceId |-> InstanceId(p), expiresAt |-> now + r.ttlMs]]]
             /\ lease' = [lease EXCEPT ![p][r.key] = now + r.ttlMs]
             /\ grants' = [grants EXCEPT ![p][r.key] =
                    [store |-> "dbLocks", expiresAt |-> now + r.ttlMs]]
             /\ task' = [task EXCEPT ![t] = AcquireReturns(r, TRUE)]
        ELSE /\ dbLocks' = [dbLocks EXCEPT ![p] = cleaned]
             /\ UNCHANGED <<lease, grants>>
             /\ task' = [task EXCEPT ![t] =
                    IF r.attempt < r.retries
                    THEN [r EXCEPT !.pc = "db_delay", !.wakeAt = now + r.retryDelay]
                    ELSE AcquireReturns(r, FALSE)]

AcquireDatabaseLock(t, r0) ==
    LET p == ProcOf(t)
        r == [r0 EXCEPT !.attempts = @ + 1]
        cleaned == cleanupExpiredLocks(dbLocks[p], now)
    IN  IF DbLockFree(cleaned, r.lockKey, now)
        THEN /\ dbLocks' = [dbLocks EXCEPT ![p] =
                    [cleaned EXCEPT ![r.lockKey] =
                        [instanceId |-> InstanceId(p), expiresAt |-> now + r.ttlMs]]]
             /\ lease' = [lease EXCEPT ![p][r.key] = now + r.ttlMs]
             /\ grants' = [grants EXCEPT ![p][r.key] =
                    [store |-> "dbLocks", expiresAt |-> now + r.ttlMs]]
             /\ task' = [task EXCEPT ![t] = AcquireReturns(r, TRUE)]
        ELSE /\ dbLocks' = [dbLocks EXCEPT ![p] = cleaned]
             /\ UNCHANGED <<lease, grants>>
             /\ task' = [task EXCEPT ![t] =
                    IF r.attempt < r.retries
                    THEN [r EXCEPT !.pc = "db_delay", !.wakeAt = now + r.retryDelay]
                    ELSE AcquireReturns(r, FALSE)]

\* Faulty variant: a catch that rethrows the store's error to the caller
RedisErrorRethrow(t, r) ==
    /\ task' = [task EXCEPT ![t] = Finish([r EXCEPT !.fellBack = TRUE, !.outcome = "raised"])]
    /\ UNCHANGED <<dbLocks, lease, grants>>

\* acquireRedisLock's catch: log, then acquireDatabaseLock with the same
\* retries, its own attempt counter starting at 0
RedisErrorFallback(t, r) ==
    AcquireDatabaseLock(t, [r EXCEPT !.attempt = 0, !.fellBack = TRUE])

\* Faulty variant: a service that stays on the Map once it has fallen back
AcquireLockDegraded(t, r0, o) ==
    LET r == [r0 EXCEPT !.key = o.key,
                        !.lockKey = LockKey(o.key),
                        !.ttlMs = Default(o.ttl, defaultTtl) * MsPerSecond,
                        !.retries = Default(o.retries, defaultRetries),
                        !.retryDelay = Default(o.retryDelay, defaultRetryDelay)]
    IN  IF cacheManager[ProcOf(t)] /\ \A lk \in LockKeys : dbLocks[ProcOf(t)][lk] = NoLock
        THEN /\ task' = [task EXCEPT ![t] = [r EXCEPT !.pc = "acq_get"]]
             /\ UNCHANGED <<dbLocks, lease, grants>>
        ELSE AcquireDatabaseLock(t, r)

\* The record that the latest acquire of `key` by process q that returned
\* true wrote, when q has called no release of the key since
GrantRecord(q, key) ==
    [instanceId |-> InstanceId(q), expiresAt |-> grants[q][key].expiresAt]

\* Process q holds `key`: an acquire of it returned true, q has called no
\* release since, and the record it wrote has not expired by the rule of
\* the store it went to (the store behind cacheManager, or the Map).  A
\* record in the Map goes with its process when the process exits.
Holds(q, key) ==
    \/ grants[q][key].store = "cacheManager" /\ RemoteLive(GrantRecord(q, key), now)
    \/ /\ grants[q][key].store = "dbLocks"
       /\ dbLocks[q][LockKey(key)] = GrantRecord(q, key)
       /\ Unexpired(GrantRecord(q, key), now)

\* Another coordinator holds `key`
HeldByOther(p, key) == \E q \in Procs \ {p} : Holds(q, key)

\* acquireLock: option defaults, lockKey, ttlMs, then the store choice
\* (heldAtCall remembers, for the properties, what held when the call came)
AcquireLock(t, r0, o) ==
    LET r == [r0 EXCEPT !.key = o.key,
                        !.heldAtCall = HeldByOther(ProcOf(t), o.key),
                        !.lockKey = LockKey(o.key),
                        !.ttlMs = Default(o.ttl, defaultTtl) * MsPerSecond,
                        !.retries = Default(o.retries, defaultRetries),
                        !.retryDelay = Default(o.retryDelay, defaultRetryDelay)]
    IN  IF cacheManager[ProcOf(t)]
        THEN /\ task' = [task EXCEPT ![t] = [r EXCEPT !.pc = "acq_get"]]
             /\ UNCHANGED <<dbLocks, lease, grants>>
        ELSE AcquireDatabaseLock(t, r)

----------------------------------------------------------------------------
(* Calls arriving at a process *)

\* A task takes a call when it has none in flight; what the caller of its
\* previous call saw stays readable until then
Ready(t) == task[t].pc \in {"idle", "done"}

\* The step ends the process of task t (an unhandled rejection in it)
ExitStep(t) == task[t].pc # "ended" /\ task'[t].pc = "ended"

\* Faulty variant: the interceptor takes the lock for every handler, with
\* or without @DistributedLock metadata
FireAlwaysGuarded(t, guarded, o) ==
    /\ Ready(t)
    /\ AcquireLock(t, [IdleTask EXCEPT !.op = "gate", !.guarded = TRUE], o)
    /\ UNCHANGED <<now, remoteUp, remoteHung, redis, memory, cacheManager, remoteStore, ticks, flips>>

\* A trigger fires the handler behind the interceptor; `guarded` is whether
\* the handler carries @DistributedLock metadata
Fire(t, guarded, o) ==
    /\ Ready(t)
    /\ IF guarded
       THEN AcquireLock(t, [IdleTask EXCEPT !.op = "gate", !.guarded = TRUE], o)
       ELSE /\ task' = [task EXCEPT ![t] =
                    [IdleTask EXCEPT !.op = "gate", !.pc = "work", !.handlerRuns = 1]]
            /\ UNCHANGED <<dbLocks, lease, grants>>
    /\ UNCHANGED <<now, remoteUp, remoteHung, redis, memory, cacheManager, remoteStore, ticks, flips>>

Trigger(t, guarded, o) ==
    /\ calls < MaxCalls
    /\ calls' = calls + 1
    /\ Fire(t, guarded, o)

\* lockService.acquireLock(options) called directly
CallAcquire(t, o) ==
    /\ Ready(t)
    /\ calls < MaxCalls
    /\ calls' = calls + 1
    /\ AcquireLock(t, [IdleTask EXCEPT !.op = "acquire"], o)
    /\ UNCHANGED <<now, remoteUp, remoteHung, redis, memory, cacheManager, remoteStore, ticks, flips>>

----------------------------------------------------------------------------
(* DistributedLockService.acquireRedisLock, one step per await *)

\* Faulty variant: a caller that finds its own record takes the lock again
AcqGetReentrant(t) ==
    LET r == task[t] IN
    /\ r.pc = "acq_get"
    /\ ~remoteHung
    /\ IF ~remoteUp
       THEN RedisErrorFallback(t, r)
       ELSE /\ task' = [task EXCEPT ![t] =
                    IF CacheGet(StoreOf(ProcOf(t)), r.lockKey, now)
                            \in {"undefined", InstanceId(ProcOf(t))}
                    THEN [r EXCEPT !.pc = "acq_set"]
                    ELSE IF r.attempt < r.retries
                    THEN [r EXCEPT !.pc = "acq_delay", !.wakeAt = now + r.retryDelay,
                                   !.attempts = @ + 1]
                    ELSE AcquireReturns([r EXCEPT !.attempts = @ + 1], FALSE)]
            /\ UNCHANGED <<dbLocks, lease, grants>>
    /\ UNCHANGED <<now, remoteUp, remoteHung, redis, memory, cacheManager, remoteStore, ticks, flips, calls>>

\* Faulty variant: a get that finds a record renews it for the caller's TTL
AcqGetTouches(t) ==
    LET r == task[t] IN
    /\ r.pc = "acq_get"
    /\ ~remoteHung
    /\ IF ~remoteUp
       THEN /\ RedisErrorFallback(t, r)
            /\ UNCHANGED <<redis, memory>>
       ELSE /\ task' = [task EXCEPT ![t] =
                    IF CacheGet(StoreOf(ProcOf(t)), r.lockKey, now) = "undefined"
                    THEN [r EXCEPT !.pc = "acq_set"]
                    ELSE IF r.attempt < r.retries
                    THEN [r EXCEPT !.pc = "acq_delay", !.wakeAt = now + r.retryDelay,
                                   !.attempts = @ + 1]
                    ELSE AcquireReturns([r EXCEPT !.attempts = @ + 1], FALSE)]
            /\ StoreWritten(ProcOf(t),
                    IF CacheGet(StoreOf(ProcOf(t)), r.lockKey, now) = "undefined"
                    THEN StoreOf(ProcOf(t))
                    ELSE CacheSet(StoreOf(ProcOf(t)), r.lockKey,
                                  StoreOf(ProcOf(t))[r.lockKey].instanceId, r.ttlMs, now))
            /\ UNCHANGED <<dbLocks, lease, grants>>
    /\ UNCHANGED <<now, remoteUp, remoteHung, cacheManager, remoteStore, ticks, flips, calls>>

\* `await cacheManager.get(lockKey)` answers
AcqGet(t) ==
    LET r == task[t] IN
    /\ r.pc = "acq_get"
    /\ ~remoteHung
    /\ IF ~remoteUp
       THEN RedisErrorFallback(t, r)
       ELSE /\ task' = [task EXCEPT ![t] =
                    IF CacheGet(StoreOf(ProcOf(t)), r.lockKey, now) = "undefined"
                    THEN [r EXCEPT !.pc = "acq_set"]
                    ELSE IF r.attempt < r.retries
                    THEN [r EXCEPT !.pc = "acq_delay", !.wakeAt = now + r.retryDelay,
                                   !.attempts = @ + 1]
                    ELSE AcquireReturns([r EXCEPT !.attempts = @ + 1], FALSE)]
            /\ UNCHANGED <<dbLocks, lease, grants>>
    /\ UNCHANGED <<now, remoteUp, remoteHung, redis, memory, cacheManager, remoteStore, ticks, flips, calls>>

\* `await cacheManager.set(lockKey, lockValue, ttlMs)` answers; return true
AcqSet(t) ==
    LET r == task[t] IN
    /\ r.pc = "acq_set"
    /\ ~remoteHung
    /\ IF ~remoteUp
       THEN /\ RedisErrorFallback(t, r)
            /\ UNCHANGED <<redis, memory>>
       ELSE /\ StoreWritten(ProcOf(t),
                    CacheSet(StoreOf(ProcOf(t)), r.lockKey, InstanceId(ProcOf(t)), r.ttlMs, now))
            /\ lease' = [lease EXCEPT ![ProcOf(t)][r.key] = now + r.ttlMs]
            /\ grants' = [grants EXCEPT ![ProcOf(t)][r.key] =
                    [store |-> "cacheManager",
                     expiresAt |-> now + r.ttlMs * remoteStore.ttlUnit]]
            /\ task' = [task EXCEPT ![t] =
                    AcquireReturns([r EXCEPT !.attempts = @ + 1], TRUE)]
            /\ dbLocks' = dbLocks
    /\ UNCHANGED <<now, remoteUp, remoteHung, cacheManager, remoteStore, ticks, flips, calls>>

\* Faulty variant: a retry that does not wait for the delay
AcqDelayNoWait(t) ==
    /\ task[t].pc = "acq_delay"
    /\ task' = [task EXCEPT ![t] = [@ EXCEPT !.pc = "acq_get", !.attempt = @ + 1]]
    /\ UNCHANGED <<now, remoteUp, remoteHung, redis, memory, dbLocks, cacheManager, remoteStore, lease, grants, ticks, flips, calls>>

\* Faulty variant: the call gives up after its wait instead of trying again
AcqDelayGivesUp(t) ==
    /\ task[t].pc = "acq_delay"
    /\ now >= task[t].wakeAt
    /\ task' = [task EXCEPT ![t] = AcquireReturns(@, FALSE)]
    /\ UNCHANGED <<now, remoteUp, remoteHung, redis, memory, dbLocks, cacheManager, remoteStore, lease, grants, ticks, flips, calls>>

\* `await this.delay(retryDelay)` is over; attempt++ and the next get is sent
AcqDelay(t) ==
    LET r == task[t] IN
    /\ r.pc = "acq_delay"
    /\ now >= r.wakeAt
    /\ task' = [task EXCEPT ![t] = [r EXCEPT !.pc = "acq_get", !.attempt = @ + 1]]
    /\ UNCHANGED <<now, remoteUp, remoteHung, redis, memory, dbLocks, cacheManager, remoteStore, lease, grants, ticks, flips, calls>>

\* acquireDatabaseLock: the delay is over; attempt++ and the next pass runs
DbDelay(t) ==
    LET r == task[t] IN
    /\ r.pc = "db_delay"
    /\ now >= r.wakeAt
    /\ AcquireDatabaseLock(t, [r EXCEPT !.attempt = @ + 1])
    /\ UNCHANGED <<now, remoteUp, remoteHung, redis, memory, cacheManager, remoteStore, ticks, flips, calls>>

----------------------------------------------------------------------------
(* DistributedLockService.releaseLock *)

\* A releaseLock call ends (resolved, or rejected with the store's error).
\* A direct caller sees the rejection.  Inside tap nobody holds the promise
\* of the async callback: the rejection is an unhandled one, no listener for
\* it is installed, and the process exits.
ReleaseSettled(r, rejected) ==
    LET q == IF ~rejected THEN r
             ELSE IF r.op = "release" THEN [r EXCEPT !.outcome = "raised"]
             ELSE [r EXCEPT !.unhandled = TRUE, !.pc = "ended"]
    IN  IF q.pc = "ended"
        THEN q
        ELSE IF q.relGet = 0 /\ q.relDel = 0
        THEN Finish([q EXCEPT !.outcome =
                        IF q.op = "release" /\ @ = "none" THEN "returned" ELSE @])
        ELSE q

\* The tasks after a step that leaves record q for task t: when the step
\* ended t's process, every call and handler of that process is gone with it
ProcessExit(t, q) ==
    IF q.pc = "ended"
    THEN [u \in Tasks |->
            IF ProcOf(u) = ProcOf(t)
            THEN [(IF u = t THEN q ELSE task[u]) EXCEPT !.pc = "ended"]
            ELSE task[u]]
    ELSE [task EXCEPT ![t] = q]

\* The Maps after that step: the Map of a process that ended is gone
MapsAfterExit(t, q) ==
    IF q.pc = "ended"
    THEN [dbLocks EXCEPT ![ProcOf(t)] = NoEntries]
    ELSE dbLocks

\* The in-memory stores after that step: the store of a process that ended
\* is gone with it
MemoryAfterExit(t, q, m) ==
    IF q.pc = "ended"
    THEN [m EXCEPT ![ProcOf(t)] = NoEntries]
    ELSE m

\* releaseLock(key) is entered n times in the same synchronous run
\* (n = 1 for a direct call).  With a cacheManager each call sends its get
\* and suspends; without one each call runs to its end on the Map.
ReleaseLock(t, r, n) ==
    LET p == ProcOf(t) IN
    /\ lease' = IF n > 0 THEN [lease EXCEPT ![p][r.key] = NoLease] ELSE lease
    /\ grants' = IF n > 0 THEN [grants EXCEPT ![p][r.key] = NoGrant] ELSE grants
    /\ IF cacheManager[p]
       THEN /\ task' = [task EXCEPT ![t] =
                    ReleaseSettled([r EXCEPT !.pc = "releasing", !.releaseCalls = n,
                                             !.relGet = n], FALSE)]
            /\ dbLocks' = dbLocks
       ELSE /\ task' = [task EXCEPT ![t] =
                    ReleaseSettled([r EXCEPT !.pc = "releasing", !.releaseCalls = n], FALSE)]
            /\ dbLocks' = IF n > 0
                          THEN [dbLocks EXCEPT ![p] = DbRelease(@, r.lockKey, InstanceId(p))]
                          ELSE dbLocks

\* lockService.releaseLock(key) called directly
CallRelease(t, k) ==
    /\ Ready(t)
    /\ calls < MaxCalls
    /\ calls' = calls + 1
    /\ ReleaseLock(t, [IdleTask EXCEPT !.op = "release", !.key = k, !.lockKey = LockKey(k)], 1)
    /\ UNCHANGED <<now, remoteUp, remoteHung, redis, memory, cacheManager, remoteStore, ticks, flips>>

\* `await cacheManager.get(lockKey)` of one releaseLock call answers
RelGet(t) ==
    LET r == task[t]
        owned == CacheGet(StoreOf(ProcOf(t)), r.lockKey, now) = InstanceId(ProcOf(t))
    IN
    /\ r.pc = "releasing"
    /\ r.relGet > 0
    /\ ~remoteHung
    /\ LET q == IF ~remoteUp
                THEN ReleaseSettled([r EXCEPT !.relGet = @ - 1], TRUE)
                ELSE IF owned
                THEN [r EXCEPT !.relGet = @ - 1, !.relDel = @ + 1]
                ELSE ReleaseSettled([r EXCEPT !.relGet = @ - 1], FALSE)
       IN  /\ task' = ProcessExit(t, q)
           /\ dbLocks' = MapsAfterExit(t, q)
           /\ memory' = MemoryAfterExit(t, q, memory)
    /\ UNCHANGED <<now, remoteUp, remoteHung, redis, cacheManager, remoteStore, lease, grants, ticks, flips, calls>>

\* `await cacheManager.del(lockKey)` of one releaseLock call answers
RelDel(t) ==
    LET r == task[t] IN
    /\ r.pc = "releasing"
    /\ r.relDel > 0
    /\ ~remoteHung
    /\ LET q == ReleaseSettled([r EXCEPT !.relDel = @ - 1], ~remoteUp)
           deleted == IF remoteUp THEN CacheDel(StoreOf(ProcOf(t)), r.lockKey)
                      ELSE StoreOf(ProcOf(t))
       IN  /\ task' = ProcessExit(t, q)
           /\ dbLocks' = MapsAfterExit(t, q)
           /\ redis' = IF remoteStore.shared THEN deleted ELSE redis
           /\ memory' = IF remoteStore.shared THEN memory
                        ELSE MemoryAfterExit(t, q, [memory EXCEPT ![ProcOf(t)] = deleted])
    /\ UNCHANGED <<now, remoteUp, remoteHung, cacheManager, remoteStore, lease, grants, ticks, flips, calls>>

----------------------------------------------------------------------------
(* DistributedLockService.isLocked *)

\* isLocked(key) is called.  With a cacheManager the call sends its get and
\* suspends at `await cacheManager.get(lockKey)`; without one it runs to its
\* end on the Map.
IsLocked(t, k) ==
    LET p == ProcOf(t)
        lk == LockKey(k)
        r == [IdleTask EXCEPT !.op = "isLocked", !.key = k, !.lockKey = lk, !.pc = "done"]
    IN
    /\ Ready(t)
    /\ calls < MaxCalls
    /\ calls' = calls + 1
    /\ IF cacheManager[p]
       THEN /\ task' = [task EXCEPT ![t] = [r EXCEPT !.pc = "isLocked_get"]]
            /\ dbLocks' = dbLocks
       ELSE IF dbLocks[p][lk] = NoLock
       THEN /\ task' = [task EXCEPT ![t] = [r EXCEPT !.outcome = "false"]]
            /\ dbLocks' = dbLocks
       ELSE IF dbLocks[p][lk].expiresAt < now
       THEN /\ task' = [task EXCEPT ![t] = [r EXCEPT !.outcome = "false"]]
            /\ dbLocks' = [dbLocks EXCEPT ![p][lk] = NoLock]
       ELSE /\ task' = [task EXCEPT ![t] = [r EXCEPT !.outcome = "true"]]
            /\ dbLocks' = dbLocks
    /\ UNCHANGED <<now, remoteUp, remoteHung, redis, memory, cacheManager, remoteStore, lease, grants, ticks, flips>>

\* `await cacheManager.get(lockKey)` of isLocked answers: the store's error
\* rejects the call, otherwise `value !== undefined && value !== null`
IsLockedGet(t) ==
    LET r == task[t] IN
    /\ r.pc = "isLocked_get"
    /\ ~remoteHung
    /\ task' = [task EXCEPT ![t] =
            [r EXCEPT !.pc = "done",
                      !.outcome = IF ~remoteUp THEN "raised"
                                  ELSE BoolStr(CacheGet(StoreOf(ProcOf(t)), r.lockKey, now)
                                                  # "undefined")]]
    /\ UNCHANGED <<now, remoteUp, remoteHung, redis, memory, dbLocks, cacheManager, remoteStore, lease, grants, ticks, flips, calls>>

----------------------------------------------------------------------------
(* The handler ends: the Observable of next.handle() emits and completes,   *)
(* or errors.  tap runs its callbacks, then passes the notification on.    *)

WorkComplete(t, ok) ==
    LET r == [task[t] EXCEPT !.outcome = IF ok THEN "value" ELSE "error"] IN
    /\ task[t].pc = "work"
    /\ IF r.guarded
       THEN ReleaseLock(t, r, TapReleases(ok))
       ELSE /\ task' = [task EXCEPT ![t] = Finish(r)]
            /\ UNCHANGED <<dbLocks, lease, grants>>
    /\ UNCHANGED <<now, remoteUp, remoteHung, redis, memory, cacheManager, remoteStore, ticks, flips, calls>>

----------------------------------------------------------------------------
(* Environment *)

\* Faulty variant: time passing stops the handlers whose lease has run out
TickCancels ==
    /\ ticks < MaxTicks
    /\ ticks' = ticks + 1
    /\ now' = now + TickMs
    /\ task' = [t \in Tasks |->
            IF /\ task[t].pc = "work" /\ task[t].guarded
               /\ lease[ProcOf(t)][task[t].key] # NoLease
               /\ lease[ProcOf(t)][task[t].key] < now'
            THEN Finish([task[t] EXCEPT !.outcome = "error"])
            ELSE task[t]]
    /\ UNCHANGED <<remoteUp, remoteHung, redis, memory, dbLocks, cacheManager, remoteStore, lease, grants, flips, calls>>

Tick ==
    /\ ticks < MaxTicks
    /\ ticks' = ticks + 1
    /\ now' = now + TickMs
    /\ UNCHANGED <<remoteUp, remoteHung, redis, memory, dbLocks, cacheManager, remoteStore, task, lease, grants, flips, calls>>

\* The redis server becomes unreachable, or reachable again
Flip ==
    /\ remoteStore.shared
    /\ flips' = flips + 1
    /\ remoteUp' = ~remoteUp
    /\ UNCHANGED <<now, remoteHung, redis, memory, dbLocks, cacheManager, remoteStore, task, lease, grants, ticks, calls>>

RemoteFlip == flips < MaxFlips /\ Flip

\* From now on the remote store settles no call: every pending and later
\* `await cacheManager.get/set/del` stays pending (nothing in the service
\* times a store call out)
RemoteHang ==
    /\ remoteStore.shared
    /\ remoteUp
    /\ ~remoteHung
    /\ remoteHung' = TRUE
    /\ UNCHANGED <<now, remoteUp, redis, memory, dbLocks, cacheManager, remoteStore, task, lease, grants, ticks, flips, calls>>

----------------------------------------------------------------------------

Init ==
    /\ now = 0
    /\ remoteStore \in StoreKinds
    /\ remoteUp \in IF remoteStore.shared THEN BOOLEAN ELSE {TRUE}
    /\ remoteHung = FALSE
    /\ redis = NoEntries
    /\ memory = [p \in Procs |-> NoEntries]
    /\ dbLocks = [p \in Procs |-> NoEntries]
    /\ cacheManager \in {[p \in Procs |-> TRUE], [p \in Procs |-> p # "A"]}
    /\ task = [t \in Tasks |-> IdleTask]
    /\ lease = [p \in Procs |-> [k \in Keys |-> NoLease]]
    /\ grants = [p \in Procs |-> [k \in Keys |-> NoGrant]]
    /\ ticks = 0
    /\ flips = 0
    /\ calls = 0

Next ==
    \/ \E t \in GateTasks, g \in BOOLEAN, o \in LockOptions : Trigger(t, g, o)
    \/ \E t \in DirectTasks, o \in LockOptions : CallAcquire(t, o)
    \/ \E t \in DirectTasks, k \in Keys : CallRelease(t, k)
    \/ \E t \in DirectTasks, k \in Keys : IsLocked(t, k)
    \/ \E t \in DirectTasks : IsLockedGet(t)
    \/ \E t \in Tasks : AcqGet(t)
    \/ \E t \in Tasks : AcqSet(t)
    \/ \E t \in Tasks : AcqDelay(t)
    \/ \E t \in Tasks : DbDelay(t)
    \/ \E t \in Tasks, ok \in BOOLEAN : WorkComplete(t, ok)
    \/ \E t \in Tasks : RelGet(t)
    \/ \E t \in Tasks : RelDel(t)
    \/ Tick
    \/ RemoteFlip

Spec == Init /\ [][Next]_vars

\* The fleet as the worker app deploys it: the lock service is reached only
\* through the interceptor of the @DistributedLock handlers
NextGate ==
    \/ \E t \in GateTasks, g \in BOOLEAN, o \in LockOptions : Trigger(t, g, o)
    \/ \E t \in GateTasks : AcqGet(t)
    \/ \E t \in GateTasks : AcqSet(t)
    \/ \E t \in GateTasks : AcqDelay(t)
    \/ \E t \in GateTasks : DbDelay(t)
    \/ \E t \in GateTasks, ok \in BOOLEAN : WorkComplete(t, ok)
    \/ \E t \in GateTasks : RelGet(t)
    \/ \E t \in GateTasks : RelDel(t)
    \/ Tick
    \/ RemoteFlip

SpecGate == Init /\ [][NextGate]_vars

\* The fleet of guarded handlers over a store that stays as it started.
\* With one handler per process no pass over a Map is ever refused there (the
\* handler's own record is the only one, and it is gone or the process has
\* exited before the next trigger), so no wait on the Map occurs.
NextSteady ==
    \/ \E t \in GateTasks, o \in LockOptions : Trigger(t, TRUE, o)
    \/ \E t \in GateTasks : AcqGet(t)
    \/ \E t \in GateTasks : AcqSet(t)
    \/ \E t \in GateTasks : AcqDelay(t)
    \/ \E t \in GateTasks, ok \in BOOLEAN : WorkComplete(t, ok)
    \/ \E t \in GateTasks : RelGet(t)
    \/ \E t \in GateTasks : RelDel(t)
    \/ Tick

SpecSteady == Init /\ [][NextSteady]_vars

\* The same fleet over a store that stays as it started, with one more
\* trigger: a holder, a racing acquirer, and a later acquirer
MaxHandoffCalls == MaxCalls + 1

HandoffTrigger(t, o) ==
    /\ calls < MaxHandoffCalls
    /\ calls' = calls + 1
    /\ Fire(t, TRUE, o)

NextHandoff ==
    \/ \E t \in GateTasks, o \in LockOptions : HandoffTrigger(t, o)
    \/ \E t \in GateTasks : AcqGet(t)
    \/ \E t \in GateTasks : AcqSet(t)
    \/ \E t \in GateTasks : AcqDelay(t)
    \/ \E t \in GateTasks, ok \in BOOLEAN : WorkComplete(t, ok)
    \/ \E t \in GateTasks : RelGet(t)
    \/ \E t \in GateTasks : RelDel(t)
    \/ Tick

SpecHandoff == Init /\ [][NextHandoff]_vars

\* One process, two @DistributedLock handlers triggered at overlapping times
LocalTasks == {t \in Tasks : ProcOf(t) = "A"}

NextLocalSteady ==
    \/ \E t \in LocalTasks, o \in LockOptions : Trigger(t, TRUE, o)
    \/ \E t \in LocalTasks : AcqGet(t)
    \/ \E t \in LocalTasks : AcqSet(t)
    \/ \E t \in LocalTasks : AcqDelay(t)
    \/ \E t \in LocalTasks : DbDelay(t)
    \/ \E t \in LocalTasks, ok \in BOOLEAN : WorkComplete(t, ok)
    \/ \E t \in LocalTasks : RelGet(t)
    \/ \E t \in LocalTasks : RelDel(t)
    \/ Tick

\* ... over a store that stays as it started
SpecLocalSteady == Init /\ [][NextLocalSteady]_vars

\* ... over a store that fails and recovers
NextLocal == NextLocalSteady \/ RemoteFlip

SpecLocal == Init /\ [][NextLocal]_vars

\* One process whose code also calls the lock service directly, next to a
\* guarded handler
NextDirect ==
    \/ \E t \in LocalTasks \cap GateTasks, o \in LockOptions : Trigger(t, TRUE, o)
    \/ \E t \in LocalTasks \cap DirectTasks, o \in LockOptions : CallAcquire(t, o)
    \/ \E t \in LocalTasks \cap DirectTasks, k \in Keys : CallRelease(t, k)
    \/ \E t \in LocalTasks \cap DirectTasks, k \in Keys : IsLocked(t, k)
    \/ \E t \in LocalTasks \cap DirectTasks : IsLockedGet(t)
    \/ \E t \in LocalTasks : AcqGet(t)
    \/ \E t \in LocalTasks : AcqSet(t)
    \/ \E t \in LocalTasks : AcqDelay(t)
    \/ \E t \in LocalTasks : DbDelay(t)
    \/ \E t \in LocalTasks, ok \in BOOLEAN : WorkComplete(t, ok)
    \/ \E t \in LocalTasks : RelGet(t)
    \/ \E t \in LocalTasks : RelDel(t)
    \/ Tick
    \/ RemoteFlip

SpecDirect == Init /\ [][NextDirect]_vars

\* Two processes over a store that stays as it started: a guarded handler
\* in one, direct calls of the lock service in the other
CrossTasks == DirectTasks \cup (GateTasks \ LocalTasks)

NextCross ==
    \/ \E t \in CrossTasks \cap GateTasks, o \in LockOptions : Trigger(t, TRUE, o)
    \/ \E t \in CrossTasks \cap DirectTasks, o \in LockOptions : CallAcquire(t, o)
    \/ \E t \in CrossTasks \cap DirectTasks, k \in Keys : CallRelease(t, k)
    \/ \E t \in CrossTasks \cap DirectTasks, k \in Keys : IsLocked(t, k)
    \/ \E t \in CrossTasks \cap DirectTasks : IsLockedGet(t)
    \/ \E t \in CrossTasks : AcqGet(t)
    \/ \E t \in CrossTasks : AcqSet(t)
    \/ \E t \in CrossTasks : AcqDelay(t)
    \/ \E t \in CrossTasks : DbDelay(t)
    \/ \E t \in CrossTasks, ok \in BOOLEAN : WorkComplete(t, ok)
    \/ \E t \in CrossTasks : RelGet(t)
    \/ \E t \in CrossTasks : RelDel(t)
    \/ Tick

SpecCross == Init /\ [][NextCross]_vars

\* Handlers with and without @DistributedLock behind the same interceptor,
\* over a store that stays as it started
NextPass ==
    \/ \E t \in GateTasks, g \in BOOLEAN, o \in LockOptions : Trigger(t, g, o)
    \/ \E t \in GateTasks : AcqGet(t)
    \/ \E t \in GateTasks : AcqSet(t)
    \/ \E t \in GateTasks : AcqDelay(t)
    \/ \E t \in GateTasks, ok \in BOOLEAN : WorkComplete(t, ok)
    \/ \E t \in GateTasks : RelGet(t)
    \/ \E t \in GateTasks : RelDel(t)
    \/ Tick

SpecPass == Init /\ [][NextPass]_vars

\* The fleet with handlers that do not retry, over a store that may stop
\* answering; a store call that is answered is answered eventually
NoRetryOptions == {o \in LockOptions : o.retries = Undef}

NextHang ==
    \/ \E t \in GateTasks, o \in NoRetryOptions : Trigger(t, TRUE, o)
    \/ \E t \in GateTasks : AcqGet(t)
    \/ \E t \in GateTasks : AcqSet(t)
    \/ \E t \in GateTasks, ok \in BOOLEAN : WorkComplete(t, ok)
    \/ \E t \in GateTasks : RelGet(t)
    \/ \E t \in GateTasks : RelDel(t)
    \/ RemoteHang

SpecHang ==
    /\ Init
    /\ [][NextHang]_vars
    /\ \A t \in GateTasks : WF_vars(AcqGet(t)) /\ WF_vars(AcqSet(t))

\* That fleet again, over a store that may fail once more
MaxOutageFlips == MaxFlips + 1

OutageFlip == flips < MaxOutageFlips /\ Flip

NextOutage ==
    \/ NextHandoff
    \/ \E t \in GateTasks : DbDelay(t)
    \/ OutageFlip

SpecOutage == Init /\ [][NextOutage]_vars

----------------------------------------------------------------------------
(* Properties *)

Self(t) == InstanceId(ProcOf(t))
Acquiring(r) == r.pc \in {"acq_get", "acq_set", "acq_delay", "db_delay"}
Executing(t, k) == task[t].pc = "work" /\ task[t].guarded /\ task[t].key = k

\* C1: mutual exclusion of acquire.  An acquire returns true from the remote
\* store only if, at that moment, the store holds no unexpired record of the
\* key written by another coordinator.
C1_AcquireMutualExclusion ==
    [][\A t \in Tasks :
          (task[t].pc = "acq_set" /\ task'[t].lockAcquired = "true" /\ ~task'[t].fellBack)
          => CacheGet(StoreOf(ProcOf(t)), task[t].lockKey, now) \in {"undefined", Self(t)}]_vars

\* C2: execution-level exclusion.  No two worker processes that took the
\* lock of a key from the shared remote store execute its guarded handler at
\* the same time.
C2_ExecutionExclusion ==
    \A k \in Keys : \A t, u \in Tasks :
        (/\ ProcOf(t) # ProcOf(u)
         /\ Executing(t, k) /\ Executing(u, k)
         /\ remoteStore.shared
         /\ cacheManager[ProcOf(t)] /\ cacheManager[ProcOf(u)])
        => (task[t].fellBack \/ task[u].fellBack)

\* C3: per-key state machine.  The owner stored for a key never changes
\* from one coordinator directly to another: between two owners the record
\* is absent or expired, in the remote store and in every fallback map.
C3_OwnerChangesOnlyThroughUnlocked ==
    [][\A lk \in LockKeys :
          /\ \A p \in Procs :
                (CacheGet(StoreOf(p), lk, now) # "undefined"
                    /\ CacheGet(StoreOf(p)', lk, now') # "undefined")
                => CacheGet(StoreOf(p)', lk, now') = CacheGet(StoreOf(p), lk, now)
          /\ \A p \in Procs :
                (DbGet(dbLocks[p], lk, now) # "undefined"
                    /\ DbGet(dbLocks'[p], lk, now') # "undefined")
                => DbGet(dbLocks'[p], lk, now') = DbGet(dbLocks[p], lk, now)]_vars

\* C4: owner-only release.  The delete of a releaseLock call never removes
\* an unexpired record whose stored owner is another coordinator.
C4_OwnerOnlyRelease ==
    [][\A t \in Tasks :
          (task[t].pc = "releasing" /\ task'[t].relDel < task[t].relDel
              /\ StoreOf(ProcOf(t))' # StoreOf(ProcOf(t)))
          => CacheGet(StoreOf(ProcOf(t)), task[t].lockKey, now) \in {"undefined", Self(t)}]_vars

\* C5: degraded release and isLocked.  No releaseLock or isLocked call ends
\* with the store's exception reaching its caller.
C5_ReleaseAndIsLockedNeverRaise ==
    \A t \in Tasks :
        task[t].op \in {"release", "isLocked"} => task[t].outcome # "raised"

\* C6: degraded acquire.  When an acquire ends after a remote-store get or
\* set failed, nothing was raised, the remote store is untouched, and the
\* answer is that of a create-if-absent on the process's fallback map: true
\* with the record created iff the map held no unexpired record for the key.
C6_DegradedAcquire ==
    [][\A t \in Tasks :
          (Acquiring(task[t]) /\ ~Acquiring(task'[t]) /\ ~ExitStep(t) /\ task'[t].fellBack)
          => LET p == ProcOf(t)
                 lk == task[t].lockKey
                 free == DbLockFree(dbLocks[p], lk, now)
             IN  /\ task'[t].outcome # "raised"
                 /\ task'[t].lockAcquired = BoolStr(free)
                 /\ UNCHANGED <<redis, memory>>
                 /\ dbLocks'[p][lk] =
                        IF free
                        THEN [instanceId |-> Self(t), expiresAt |-> now + task[t].ttlMs]
                        ELSE dbLocks[p][lk]]_vars

\* C6 witness: an acquire whose remote-store operation failed was refused
\* by an unexpired record of the process's fallback map
C6_Witness ==
    \E t \in Tasks :
        /\ task[t].fellBack /\ task[t].lockAcquired = "false"
        /\ task[t].outcome \in {"false", "empty"}
        /\ DbGet(dbLocks[ProcOf(t)], task[t].lockKey, now) = Self(t)

\* C7: release always follows the work.  Once the guarded handler of a
\* trigger has ended, with a value or with an error, releaseLock has been
\* called for that trigger.  (A handler still running when its process
\* exits has not ended: its outcome is still "none".)
C7_ReleaseFollowsWork ==
    \A t \in Tasks :
        (/\ task[t].guarded /\ task[t].handlerRuns > 0 /\ task[t].pc # "work"
         /\ ~(task[t].pc = "ended" /\ task[t].outcome = "none"))
        => (task[t].lockAcquired = "true" /\ task[t].releaseCalls >= 1)

\* C7 witness: a guarded handler threw and releaseLock was called
C7_Witness ==
    \E t \in Tasks :
        /\ task[t].guarded /\ task[t].handlerRuns = 1
        /\ task[t].outcome = "error" /\ task[t].releaseCalls = 1

\* C8: error after release.  At the moment the trigger source sees the
\* handler's error, the record of a lock taken from the remote store is
\* no longer in that store.
C8_ErrorAfterRelease ==
    [][\A t \in Tasks :
          (/\ task[t].pc = "work" /\ task[t].guarded /\ ~task[t].fellBack
           /\ cacheManager[ProcOf(t)]
           /\ task'[t].outcome = "error")
          => CacheGet(StoreOf(ProcOf(t))', task[t].lockKey, now') # Self(t)]_vars

\* C9: skip on refusal.  A trigger whose acquire returned false never runs
\* the handler, calls no release, and completes empty.
C9_SkipOnRefusal ==
    \A t \in Tasks :
        (task[t].op = "gate" /\ task[t].lockAcquired = "false")
        => /\ task[t].handlerRuns = 0
           /\ task[t].releaseCalls = 0 /\ task[t].relGet = 0 /\ task[t].relDel = 0
           /\ task[t].pc \in {"done", "ended"}
           /\ task[t].outcome = "empty"

\* C9 witness: a trigger was refused while another guarded handler of the
\* same key is running
C9_Witness ==
    \E t, u \in Tasks :
        /\ t # u
        /\ task[t].op = "gate" /\ task[t].lockAcquired = "false" /\ task[t].outcome = "empty"
        /\ Executing(u, task[t].key)

\* The step in which isLocked(k) of task t returns or raises: the answer to
\* its get, or the call itself when it runs on the Map
IsLockedReturn(t, k) ==
    \/ task[t].pc = "isLocked_get" /\ task[t].key = k /\ task'[t].pc = "done"
    \/ calls' = calls + 1 /\ ~cacheManager[ProcOf(t)] /\ IsLocked(t, k)

\* C10: lease duration.  After a granted acquire(k, ttl = T) at t0 and no
\* release by that coordinator since, isLocked(k) answers true iff the time
\* elapsed is less than T.
C10_LeaseDuration ==
    [][\A t \in Tasks :
          (/\ \E k \in Keys : IsLockedReturn(t, k)
           /\ task'[t].op = "isLocked"
           /\ task'[t].outcome \in {"true", "false"}
           /\ lease[ProcOf(t)][task'[t].key] # NoLease)
          => (task'[t].outcome = "true" <=> now < lease[ProcOf(t)][task'[t].key])]_vars

\* Steps of task t inside acquireLock, and how an attempt of it ends
AcquireStep(t) ==
    \/ Acquiring(task[t]) /\ task'[t] # task[t] /\ ~ExitStep(t)
    \/ /\ calls' = calls + 1
       /\ Ready(t)
       /\ \E o \in LockOptions : Fire(t, TRUE, o) \/ CallAcquire(t, o)
RemoteAttempt(t) == AcquireStep(t) /\ task[t].pc = "acq_get" /\ remoteUp
RemoteWrite(t) == AcquireStep(t) /\ task[t].pc = "acq_set" /\ remoteUp
AttemptRefused(t) ==
    \/ task'[t].pc \in {"acq_delay", "db_delay"}
    \/ task'[t].pc = "done" /\ task'[t].lockAcquired = "false"

\* C11: reacquisition after expiry.  Once T has elapsed since a granted and
\* unreleased acquire(k, ttl = T) of coordinator A, A's record refuses no
\* acquire of another coordinator: an attempt that the remote store refuses
\* on a record written by A is made no later than T after A's grant.
C11_ReacquireAfterExpiry ==
    [][\A u \in Tasks : \A q \in Procs \ {ProcOf(u)} :
          LET lk == task[u].lockKey
              k == task[u].key
          IN  (/\ RemoteAttempt(u) /\ AttemptRefused(u)
               /\ StoreOf(ProcOf(u))[lk].instanceId = InstanceId(q)
               /\ lease[q][k] # NoLease)
              => now <= lease[q][k]]_vars

\* C11 witness: A acquired a key with a TTL of one second and never
\* released it; more than a second later B was granted the same key
C11_Witness ==
    \E t, u \in Tasks :
        /\ ProcOf(t) # ProcOf(u)
        /\ Executing(t, task[u].key)
        /\ lease[ProcOf(t)][task[t].key] # NoLease
        /\ lease[ProcOf(t)][task[t].key] < now
        /\ ~task[t].fellBack /\ ~task[u].fellBack
        /\ cacheManager[ProcOf(t)] /\ cacheManager[ProcOf(u)]
        /\ task[u].lockAcquired = "true"
        /\ StoreOf(ProcOf(u))[task[u].lockKey].instanceId = Self(u)
        /\ StoreOf(ProcOf(u))[task[u].lockKey].expiresAt > now

\* The remote store is configured everywhere and has answered every call
SharedStore ==
    /\ remoteStore.shared
    /\ remoteUp /\ flips = 0 /\ \A p \in Procs : cacheManager[p]

\* No release of `key` is in flight anywhere
NoReleaseInFlight(key) ==
    \A t \in Tasks : ~(task[t].pc = "releasing" /\ task[t].key = key)

\* C12: hand-off over a shared store.  (a) An acquire issued while another
\* coordinator held the key, and returning while that coordinator still
\* holds it unreleased and unexpired, does not return true.  (b) Once every
\* holder's release has completed, an acquire attempt is not refused: the
\* next acquire is granted without waiting for the TTL.
C12_HandOff ==
    [][\A u \in Tasks :
          LET k == task'[u].key IN
          /\ (AcquireStep(u) /\ SharedStore /\ task[u].heldAtCall
                /\ HeldByOther(ProcOf(u), k))
                => task'[u].lockAcquired # "true"
          /\ (RemoteAttempt(u) /\ SharedStore /\ NoReleaseInFlight(k)
                /\ \A p \in Procs : lease[p][k] = NoLease)
                => ~AttemptRefused(u)]_vars

Waiting(r) == r.pc \in {"acq_delay", "db_delay"}

\* C13: retry count and spacing.  A wait is entered only after a refused
\* attempt that is not the (retries + 1)-th, and lasts retryDelay; the
\* attempt after a wait is not made before the wait is over; the call
\* returns false in the step of its (retries + 1)-th refused attempt, with
\* no wait after it.  Attempts are those a store answered, against the
\* remote store and against the Map counted together.
C13_RetryCountAndSpacing ==
    [][\A u \in Tasks :
          AcquireStep(u) =>
              /\ Waiting(task'[u]) =>
                    /\ task'[u].attempts <= task'[u].retries
                    /\ task'[u].wakeAt = now + task'[u].retryDelay
              /\ Waiting(task[u]) => now >= task[u].wakeAt
              /\ (task'[u].pc = "done" /\ task'[u].lockAcquired = "false") =>
                    task'[u].attempts =
                        IF Acquiring(task[u]) THEN task[u].retries + 1 ELSE 1]_vars

\* C13 witness: an acquire with retries = 1 was refused twice, one retryDelay
\* apart, by a lock another coordinator held throughout, and returned false
C13_Witness ==
    \E t, u \in Tasks :
        /\ ProcOf(t) # ProcOf(u)
        /\ Executing(t, task[u].key)
        /\ task[u].pc = "done" /\ task[u].lockAcquired = "false"
        /\ ~task[u].fellBack /\ cacheManager[ProcOf(u)]
        /\ task[u].attempts = 2
        /\ now >= TickMs

\* C14: retry bound in all cases.  One acquire call with retries = N is
\* answered on at most N + 1 acquisition attempts, those against the remote
\* store and those against the fallback Map counted together.
C14_RetryBound ==
    [][\A u \in Tasks :
          (AcquireStep(u) /\ Acquiring(task[u])) =>
              task'[u].attempts <= task[u].retries + 1]_vars

\* A record of `key` that coordinator p can reach, unexpired: in the store
\* behind its cacheManager when p has one, or in p's own Map
RecordFor(p, key) ==
    \/ cacheManager[p] /\ RemoteLive(StoreOf(p)[LockKey(key)], now)
    \/ Unexpired(dbLocks[p][LockKey(key)], now)

\* Such a record, and it is the one that the latest acquire of q that
\* returned true wrote, q having called no release since
HeldRecord(p, q, key) ==
    \/ /\ cacheManager[p]
       /\ remoteStore.shared \/ q = p
       /\ grants[q][key].store = "cacheManager"
       /\ StoreOf(p)[LockKey(key)] = GrantRecord(q, key)
       /\ RemoteLive(StoreOf(p)[LockKey(key)], now)
    \/ /\ q = p
       /\ grants[q][key].store = "dbLocks"
       /\ dbLocks[p][LockKey(key)] = GrantRecord(q, key)
       /\ Unexpired(dbLocks[p][LockKey(key)], now)

\* C15: isLocked correctness while the remote store answers.  isLocked(k)
\* returns true only if an unexpired record of k exists, and returns true
\* whenever one exists that a successful, unreleased acquire wrote, in the
\* remote store or in the fallback Map.
C15_IsLockedCorrect ==
    [][\A t \in Tasks, k \in Keys :
          (IsLockedReturn(t, k) /\ remoteUp) =>
              /\ task'[t].outcome = "true" => RecordFor(ProcOf(t), k)
              /\ (\E q \in Procs : HeldRecord(ProcOf(t), q, k))
                    => task'[t].outcome = "true"]_vars

\* The step is one pass of acquireDatabaseLock by task u
DbPass(u) ==
    /\ AcquireStep(u)
    /\ IF Acquiring(task[u])
       THEN \/ task[u].pc = "db_delay"
            \/ task[u].pc \in {"acq_get", "acq_set"} /\ ~remoteUp
       ELSE ~cacheManager[ProcOf(u)]

\* C16: fallback exclusion within a process.  A pass of acquireDatabaseLock
\* checks the Map and inserts in one step: it grants exactly when the Map
\* holds no unexpired record of the key, and the grant leaves the caller's
\* record there, so of two passes over the same key with no release or
\* expiry between them exactly the first is granted.
C16_FallbackExclusion ==
    [][\A u \in Tasks :
          LET p == ProcOf(u)
              lk == task'[u].lockKey
          IN  DbPass(u) =>
                /\ task'[u].lockAcquired = "true" <=> ~Unexpired(dbLocks[p][lk], now)
                /\ task'[u].lockAcquired = "true" =>
                      /\ Unexpired(dbLocks'[p][lk], now)
                      /\ dbLocks'[p][lk].instanceId = Self(u)
                /\ task'[u].lockAcquired # "true" => Unexpired(dbLocks'[p][lk], now)]_vars

\* C16 witness: two guarded handlers of one process on the same key, both
\* served by the fallback Map: one is running, the other was refused
C16_Witness ==
    \E t, u \in Tasks :
        /\ t # u /\ ProcOf(t) = ProcOf(u)
        /\ Executing(t, task[u].key)
        /\ task[t].fellBack \/ ~cacheManager[ProcOf(t)]
        /\ task[u].guarded /\ task[u].pc = "done" /\ task[u].lockAcquired = "false"
        /\ task[u].fellBack \/ ~cacheManager[ProcOf(u)]
        /\ task[u].attempts > 0
        /\ Unexpired(dbLocks[ProcOf(t)][task[u].lockKey], now)

\* C17: acquire always returns.  Every acquireLock call in flight
\* eventually returns (true or false), also when the remote store stops
\* answering.
C17_AcquireReturns ==
    \A t \in Tasks : Acquiring(task[t]) ~> ~Acquiring(task[t])

\* What the service is given as its remote store: cache-manager's Cache, of
\* which it calls get, set and del; the constructor takes it as it comes
CacheMethods == {"get", "set", "del"}

\* A remote-store call of acquireRedisLock is pending for task t
RemoteAcquirePending(t) ==
    cacheManager[ProcOf(t)] /\ task[t].pc \in {"acq_get", "acq_set"}

\* C18: setup-time rejection.  No acquire is attempted against a remote
\* store that has no atomic conditional write (tryCreate): a coordinator
\* given such a store is rejected before any lock is attempted.
C18_SetupRejection ==
    \A t \in Tasks : RemoteAcquirePending(t) => "tryCreate" \in CacheMethods

\* The step is the return of an acquire of p that is granted
GrantStep(p) ==
    \E t \in Tasks :
        ProcOf(t) = p /\ AcquireStep(t) /\ task'[t].lockAcquired = "true"

\* The step belongs to a releaseLock call of p
ReleaseStep(p) ==
    \E t \in Tasks :
        /\ ProcOf(t) = p
        /\ \/ task[t].pc = "work" /\ task[t].guarded /\ task'[t] # task[t]
           \/ task[t].pc = "releasing" /\ task'[t] # task[t]
           \/ calls' = calls + 1 /\ \E k \in Keys : CallRelease(t, k)

\* How one record may change in one step: an unexpired record only goes
\* away, by a release of its owner; otherwise an expired record is dropped,
\* or a granted acquire writes the acquirer's record
RecordLifecycle(e, f, writers) ==
    e # f =>
        IF Unexpired(e, now)
        THEN f = NoLock /\ \E p \in writers : InstanceId(p) = e.instanceId /\ ReleaseStep(p)
        ELSE \/ f = NoLock
             \/ \E p \in writers : InstanceId(p) = f.instanceId /\ GrantStep(p)

\* C19: record lifecycle, in the remote store and in every fallback Map.  A
\* record appears only with an acquire that returns true, its owner and
\* expiresAt are never changed in place, and it disappears only by a
\* release of its owner or by expiry.
C19_RecordLifecycle ==
    [][\A lk \in LockKeys :
          /\ \A p \in Procs : RecordLifecycle(StoreOf(p)[lk], StoreOf(p)'[lk], Procs)
          /\ \A p \in Procs : RecordLifecycle(dbLocks[p][lk], dbLocks'[p][lk], {p})]_vars

\* The store answers (or fails to answer) the get of a direct releaseLock
\* call of task t
ReleaseGetStep(t) ==
    /\ task[t].op = "release" /\ task[t].pc = "releasing" /\ task[t].relGet > 0
    /\ task'[t] # task[t]
    /\ ~ExitStep(t)

\* C20: silent ownership mismatch.  A releaseLock(k) that finds no record of
\* k, or a record of another coordinator, returns normally, raises nothing
\* and leaves every record of every store as it was.
C20_SilentMismatch ==
    [][\A t \in Tasks :
          LET p == ProcOf(t) IN
          /\ (ReleaseGetStep(t) /\ CacheGet(StoreOf(p), task[t].lockKey, now) # Self(t))
                => /\ task'[t].outcome = "returned"
                   /\ UNCHANGED <<redis, memory, dbLocks>>
          /\ \A k \in Keys :
                (CallRelease(t, k) /\ ~cacheManager[p]
                    /\ dbLocks[p][LockKey(k)].instanceId # Self(t))
                => /\ task'[t].outcome = "returned"
                   /\ UNCHANGED <<redis, memory, dbLocks>>]_vars

\* Options that give only a key, and the options the defaults stand for
KeyOnly(k) == [key |-> k, ttl |-> Undef, retries |-> Undef, retryDelay |-> Undef]
Spelled(k) == [key |-> k, ttl |-> 60, retries |-> 0, retryDelay |-> 100]

\* C21: option defaults.  A trigger whose options give only a key is, step
\* for step, a trigger with ttl = 60 s, retries = 0 and retryDelay = 100 ms;
\* a call with retries = 0 never waits, and if its one attempt is refused it
\* returns false on that attempt.
C21_OptionDefaults ==
    [][\A u \in Tasks :
          /\ \A k \in Keys :
                (calls' = calls + 1 /\ Fire(u, TRUE, KeyOnly(k)))
                    => /\ Fire(u, TRUE, Spelled(k))
                       /\ ~Waiting(task'[u])
                       /\ Acquiring(task'[u]) =>
                            /\ task'[u].ttlMs = 60000
                            /\ task'[u].retries = 0
                            /\ task'[u].retryDelay = 100
                       /\ task'[u].lockAcquired = "false" => task'[u].attempts = 1
          /\ (AcquireStep(u) /\ Acquiring(task[u]) /\ task[u].retries = 0)
                => /\ ~Waiting(task'[u])
                   /\ (task'[u].lockAcquired = "false" /\ ~task'[u].fellBack)
                        => task'[u].attempts = 1]_vars

\* C21 witness: a call made with the defaults (60 s, no retry, 100 ms) was
\* refused on its first attempt by another coordinator's record and returned
\* false without the clock having moved
C21_Witness ==
    \E t, u \in Tasks :
        /\ ProcOf(t) # ProcOf(u)
        /\ Executing(t, task[u].key)
        /\ StoreOf(ProcOf(u))[task[u].lockKey].instanceId = Self(t)
        /\ StoreOf(ProcOf(u))[task[u].lockKey].expiresAt = 60000
        /\ task[u].pc = "done" /\ task[u].lockAcquired = "false"
        /\ task[u].attempts = 1 /\ ~task[u].fellBack
        /\ now = 0

Expired(e, t) == e # NoLock /\ e.expiresAt < t

\* C22: passive cleanup of the fallback Map.  A pass of acquireDatabaseLock
\* leaves no expired record in the Map, for any key, and grants when the
\* record of its own key had expired; isLocked(k) that meets an expired
\* record of k answers false and removes it; releaseLock(k) that meets one
\* removes it.
C22_PassiveCleanup ==
    [][\A u \in Tasks :
          LET p == ProcOf(u) IN
          /\ DbPass(u) =>
                /\ \A lk \in LockKeys : ~Expired(dbLocks'[p][lk], now)
                /\ Expired(dbLocks[p][task'[u].lockKey], now)
                      => task'[u].lockAcquired = "true"
          /\ \A k \in Keys :
                (~cacheManager[p] /\ Expired(dbLocks[p][LockKey(k)], now)) =>
                    /\ IsLocked(u, k) =>
                          /\ task'[u].outcome = "false"
                          /\ dbLocks'[p][LockKey(k)] = NoLock
                    /\ CallRelease(u, k) => dbLocks'[p][LockKey(k)] = NoLock]_vars

\* C22 witness: in a process without cacheManager an acquire was granted
\* and never released, its TTL elapsed, and an isLocked call on the key
\* answered false and left the Map without the record
C22_Witness ==
    \E u \in Tasks, k \in Keys :
        LET p == ProcOf(u) IN
        /\ ~cacheManager[p]
        /\ lease[p][k] # NoLease /\ lease[p][k] < now
        /\ task[u].op = "isLocked" /\ task[u].key = k /\ task[u].outcome = "false"
        /\ dbLocks[p][LockKey(k)] = NoLock

\* C23: per-call fallback.  On a coordinator with a cacheManager every
\* acquireLock call starts with the remote get and touches no Map entry,
\* whatever earlier calls did; every releaseLock call, direct or from the
\* interceptor, sends its get to the remote store; isLocked answers from the
\* remote store alone.
C23_PerCallFallback ==
    [][\A u \in Tasks :
          cacheManager[ProcOf(u)] =>
              /\ \A o \in LockOptions :
                    (\/ calls' = calls + 1 /\ Fire(u, TRUE, o)
                     \/ CallAcquire(u, o))
                    => /\ task'[u].pc = "acq_get"
                       /\ ~task'[u].fellBack
                       /\ dbLocks' = dbLocks
              /\ \A k \in Keys :
                    /\ CallRelease(u, k) =>
                          /\ task'[u].pc = "releasing" /\ task'[u].relGet = 1
                          /\ dbLocks' = dbLocks
                    /\ IsLocked(u, k) =>
                          /\ task'[u].pc = "isLocked_get"
                          /\ dbLocks' = dbLocks
                    /\ IsLockedReturn(u, k) =>
                          /\ dbLocks' = dbLocks
                          /\ task'[u].outcome =
                                IF ~remoteUp THEN "raised"
                                ELSE BoolStr(RemoteLive(StoreOf(ProcOf(u))[LockKey(k)], now))
              /\ (task[u].pc = "work" /\ task[u].guarded /\ task'[u] # task[u]) =>
                    /\ task'[u].pc = "releasing"
                    /\ task'[u].relGet = task'[u].releaseCalls
                    /\ task'[u].relGet > 0
                    /\ dbLocks' = dbLocks]_vars

\* C23 witness: a coordinator whose earlier acquire fell back to the Map (the
\* record is still there) has since been granted a lock by the remote store
C23_Witness ==
    \E u \in Tasks :
        LET p == ProcOf(u) IN
        /\ cacheManager[p]
        /\ \E lk \in LockKeys : Unexpired(dbLocks[p][lk], now)
        /\ task[u].lockAcquired = "true" /\ ~task[u].fellBack
        /\ task[u].pc = "work"
        /\ StoreOf(p)[task[u].lockKey].instanceId = Self(u)
        /\ remoteUp

\* The step is (part of) an acquireLock, releaseLock or isLocked of task u:
\* the call, a store's answer to it, the end of one of its waits, or the
\* rejection of u's release inside tap, which ends the process.  The start
\* and the end of a handler without @DistributedLock call none of the three,
\* and a task that is only ended along with its process is not acting.
ActedOn(u) ==
    \/ /\ task'[u] # task[u]
       /\ task'[u].op = "gate" => task'[u].guarded
       /\ ExitStep(u) => task'[u].unhandled
    \/ /\ calls' = calls + 1
       /\ Ready(u)
       /\ \/ \E k \in Keys : CallRelease(u, k) \/ IsLocked(u, k)
          \/ \E o \in LockOptions : Fire(u, TRUE, o) \/ CallAcquire(u, o)

\* Record e of another key after the step: untouched, or dropped if expired
KeptOrExpired(e, f) == f = e \/ (Expired(e, now) /\ f = NoLock)

\* C24: key independence.  A step of an operation on one key leaves every
\* unexpired record of every other key as it was, in the remote store and in
\* every Map (an expired one may be dropped), and an acquire attempt is
\* refused only by an unexpired record of its own key, so what an operation
\* on k2 answers never depends on operations on k1.
C24_KeyIndependence ==
    [][\A u \in Tasks :
          /\ ActedOn(u) =>
                \A lk \in LockKeys \ {task'[u].lockKey} :
                    \A p \in Procs :
                        /\ KeptOrExpired(StoreOf(p)[lk], StoreOf(p)'[lk])
                        /\ KeptOrExpired(dbLocks[p][lk], dbLocks'[p][lk])
          /\ (AcquireStep(u) /\ AttemptRefused(u)) =>
                IF RemoteAttempt(u)
                THEN RemoteLive(StoreOf(ProcOf(u))[task'[u].lockKey], now)
                ELSE Unexpired(dbLocks[ProcOf(u)][task'[u].lockKey], now)]_vars

\* C24 witness: two guarded handlers of one process, on different keys, both
\* acquired through the same store and running at the same time
C24_Witness ==
    \E t, u \in Tasks :
        /\ t # u /\ ProcOf(t) = ProcOf(u)
        /\ task[t].pc = "work" /\ task[t].guarded /\ task[t].lockAcquired = "true"
        /\ task[u].pc = "work" /\ task[u].guarded /\ task[u].lockAcquired = "true"
        /\ task[t].key # task[u].key
        /\ LET m == dbLocks[ProcOf(t)] IN
           \/ /\ task[t].fellBack \/ ~cacheManager[ProcOf(t)]
              /\ task[u].fellBack \/ ~cacheManager[ProcOf(u)]
              /\ Unexpired(m[task[t].lockKey], now) /\ Unexpired(m[task[u].lockKey], now)
           \/ /\ ~task[t].fellBack /\ ~task[u].fellBack /\ cacheManager[ProcOf(t)]
              /\ RemoteLive(StoreOf(ProcOf(t))[task[t].lockKey], now)
              /\ RemoteLive(StoreOf(ProcOf(u))[task[u].lockKey], now)

\* C25: fallback visibility.  What a process does or is answered never
\* involves another process's Map: its steps leave the other Maps as they
\* were, its acquire attempt is refused only by an unexpired record in the
\* remote store or in its own Map, and its isLocked answers true only on
\* such a record.
C25_FallbackVisibility ==
    [][\A u \in Tasks :
          LET p == ProcOf(u) IN
          /\ ActedOn(u) => \A q \in Procs \ {p} : dbLocks'[q] = dbLocks[q]
          /\ (AcquireStep(u) /\ AttemptRefused(u)) =>
                IF RemoteAttempt(u)
                THEN RemoteLive(StoreOf(p)[task'[u].lockKey], now)
                ELSE Unexpired(dbLocks[p][task'[u].lockKey], now)
          /\ \A k \in Keys :
                (IsLockedReturn(u, k) /\ task'[u].outcome = "true") =>
                    IF cacheManager[p]
                    THEN RemoteLive(StoreOf(p)[LockKey(k)], now)
                    ELSE Unexpired(dbLocks[p][LockKey(k)], now)]_vars

\* C25 witness: two processes, both on their fallback Map, hold the same
\* key at the same time: the handler of one is running under its own
\* unexpired record while the other's acquire was granted over its own
C25_Witness ==
    \E t, u \in Tasks :
        /\ ProcOf(t) # ProcOf(u)
        /\ Executing(t, task[u].key) /\ task[t].lockAcquired = "true"
        /\ task[t].fellBack \/ ~cacheManager[ProcOf(t)]
        /\ task[u].op = "acquire" /\ task[u].lockAcquired = "true"
        /\ task[u].fellBack \/ ~cacheManager[ProcOf(u)]
        /\ Unexpired(dbLocks[ProcOf(t)][task[t].lockKey], now)
        /\ Unexpired(dbLocks[ProcOf(u)][task[t].lockKey], now)
        /\ \A p \in Procs : StoreOf(p)[task[t].lockKey] = NoLock

\* The acquire call of u has been answered true
Granted(u) == ~Acquiring(task'[u]) /\ task'[u].lockAcquired = "true"

\* C26: retry picks up a freed lock.  A wait between attempts ends in the
\* next attempt; an attempt after a wait that finds no unexpired record of
\* the key in the store it is served by creates the record, and the call
\* returns true in that attempt, with no further wait or attempt.
C26_RetryPicksUp ==
    [][\A u \in Tasks :
          LET r == task[u]
              p == ProcOf(u)
          IN  /\ (r.pc = "acq_delay" /\ task'[u] # r /\ ~ExitStep(u)) =>
                    task'[u].pc = "acq_get" /\ task'[u].attempt = r.attempt + 1
              /\ (RemoteAttempt(u) /\ r.attempt > 0 /\ ~RemoteLive(StoreOf(p)[r.lockKey], now)) =>
                    task'[u].pc = "acq_set"
              /\ (RemoteWrite(u) /\ r.attempt > 0) =>
                    /\ Granted(u)
                    /\ task'[u].attempts = r.attempts + 1
                    /\ RemoteLive(StoreOf(p)'[r.lockKey], now)
                    /\ StoreOf(p)'[r.lockKey].instanceId = Self(u)
              /\ (r.pc = "db_delay" /\ task'[u] # r /\ ~ExitStep(u)
                    /\ ~Unexpired(dbLocks[p][r.lockKey], now)) =>
                    /\ Granted(u)
                    /\ task'[u].attempts = r.attempts + 1
                    /\ Unexpired(dbLocks'[p][r.lockKey], now)
                    /\ dbLocks'[p][r.lockKey].instanceId = Self(u)]_vars

\* C26 witness: an acquire with retries = 1 was refused while another
\* coordinator's handler held the key, that handler finished and released
\* during the wait, and the second attempt returned true
C26_Witness ==
    \E t, u \in Tasks :
        /\ ProcOf(t) # ProcOf(u)
        /\ task[t].pc = "done" /\ task[t].handlerRuns = 1 /\ task[t].releaseCalls = 1
        /\ task[t].key = task[u].key
        /\ task[u].pc \in {"work", "done"} /\ task[u].lockAcquired = "true"
        /\ task[u].attempts = 2
        /\ ~task[u].fellBack /\ cacheManager[ProcOf(u)]
        /\ StoreOf(ProcOf(u))[task[u].lockKey] # NoLock
        /\ StoreOf(ProcOf(u))[task[u].lockKey].instanceId = Self(u)

\* More than the TTL that t's lock was granted for has passed since the
\* grant, and no release of the key was called
LeaseElapsed(t) ==
    /\ lease[ProcOf(t)][task[t].key] # NoLease
    /\ lease[ProcOf(t)][task[t].key] < now

\* C27: no cancellation.  A handler started after a successful acquire is
\* ended by nothing but its own completion: while it runs, no step of time,
\* of the stores or of another call changes it, whether or not its lock's
\* TTL has elapsed, and it can always complete.
C27_NoCancellation ==
    [][\A t \in Tasks :
          (task[t].pc = "work" /\ task[t].guarded /\ task[t].lockAcquired = "true") =>
              /\ ENABLED WorkComplete(t, TRUE)
              /\ task'[t] # task[t] =>
                    /\ \E ok \in BOOLEAN : WorkComplete(t, ok)
                    /\ task'[t].handlerRuns = task[t].handlerRuns
                    /\ task'[t].outcome \in {"value", "error"}]_vars

\* C27 witness: a handler is still running after its lock's TTL elapsed, and
\* another coordinator has acquired the same key meanwhile and runs too
C27_Witness ==
    \E t, u \in Tasks :
        /\ ProcOf(t) # ProcOf(u)
        /\ Executing(t, task[u].key) /\ task[t].lockAcquired = "true"
        /\ LeaseElapsed(t)
        /\ Executing(u, task[t].key) /\ task[u].lockAcquired = "true"
        /\ ~task[t].fellBack /\ ~task[u].fellBack
        /\ cacheManager[ProcOf(t)] /\ cacheManager[ProcOf(u)]
        /\ StoreOf(ProcOf(t))[task[t].lockKey] # NoLock
        /\ StoreOf(ProcOf(t))[task[t].lockKey].instanceId = Self(u)

\* A trigger of t arrives at a handler without @DistributedLock metadata
UnguardedTrigger(t) ==
    /\ calls' = calls + 1
    /\ Ready(t)
    /\ \E o \in LockOptions : Fire(t, FALSE, o)

\* The call of a handler without @DistributedLock metadata, running or ended
Unguarded(r) == r.op = "gate" /\ ~r.guarded /\ r.pc \in {"work", "done"}

\* C28: unguarded pass-through.  A trigger of a handler with no lock options
\* starts the handler in the same step, whatever the stores hold; from the
\* trigger to the handler's end no acquire attempt and no release is made and
\* neither the remote store nor any Map is read into the outcome or written.
C28_UnguardedPassThrough ==
    [][\A t \in Tasks :
          /\ UnguardedTrigger(t) =>
                /\ task'[t].pc = "work" /\ task'[t].handlerRuns = 1
                /\ task'[t].lockAcquired = IdleTask.lockAcquired
          /\ (\/ UnguardedTrigger(t)
              \/ Unguarded(task[t]) /\ task[t].pc = "work" /\ task'[t] # task[t]) =>
                /\ UNCHANGED <<redis, memory, dbLocks, lease>>
                /\ task'[t].attempts = 0 /\ task'[t].releaseCalls = 0
                /\ task'[t].relGet = 0 /\ task'[t].relDel = 0
                /\ ~Acquiring(task'[t])
                /\ task'[t].pc \in {"work", "done"}
                /\ task'[t].handlerRuns = 1
                /\ ~task'[t].unhandled]_vars

\* C28 witness: a handler without lock options ran to its end while another
\* coordinator's guarded handler held a lock, and left no trace in the stores
C28_Witness ==
    \E t, u \in Tasks :
        /\ t # u
        /\ Unguarded(task[t]) /\ task[t].pc = "done"
        /\ task[t].handlerRuns = 1 /\ task[t].outcome = "value"
        /\ task[t].attempts = 0 /\ task[t].releaseCalls = 0
        /\ Executing(u, task[u].key) /\ task[u].lockAcquired = "true"
        /\ \A k \in Keys : lease[ProcOf(t)][k] = NoLease
        /\ \A k \in Keys : dbLocks[ProcOf(t)][LockKey(k)] = NoLock

\* C29: a refused acquire is read-only.  An acquire attempt that is refused
\* leaves the record that refused it exactly as it was, owner and expiresAt,
\* and writes nothing else either: the remote store is unchanged, the record
\* of the key in the caller's Map is unchanged (only expired entries of the
\* Map may go), and the other Maps and every lease are unchanged.
C29_RefusedReadOnly ==
    [][\A u \in Tasks :
          (AcquireStep(u) /\ AttemptRefused(u)) =>
              LET p == ProcOf(u)
                  lk == task'[u].lockKey
              IN  /\ UNCHANGED <<redis, memory>>
                  /\ dbLocks'[p][lk] = dbLocks[p][lk]
                  /\ \A k \in LockKeys : KeptOrExpired(dbLocks[p][k], dbLocks'[p][k])
                  /\ \A q \in Procs \ {p} : dbLocks'[q] = dbLocks[q]
                  /\ lease' = lease
                  /\ IF RemoteAttempt(u)
                     THEN RemoteLive(StoreOf(p)'[lk], now)
                     ELSE Unexpired(dbLocks'[p][lk], now)]_vars

\* C29 witness: an acquire with one retry was refused twice, a retryDelay
\* apart, by the record of a running handler of another coordinator, and the
\* record still carries the owner and the expiry it was granted with
C29_Witness ==
    \E t, u \in Tasks :
        /\ ProcOf(t) # ProcOf(u)
        /\ Executing(t, task[u].key) /\ task[t].lockAcquired = "true"
        /\ task[u].pc = "done" /\ task[u].lockAcquired = "false"
        /\ task[u].attempts = 2 /\ ~task[u].fellBack /\ cacheManager[ProcOf(u)]
        /\ now >= TickMs
        /\ grants[ProcOf(t)][task[t].key].store = "cacheManager"
        /\ StoreOf(ProcOf(u))[task[t].lockKey] = GrantRecord(ProcOf(t), task[t].key)

\* C30: non-reentrant acquire.  An acquire attempt that meets an unexpired
\* record of its key in the store that serves it is refused and leaves the
\* record as it is, whoever owns the record: the caller's own coordinator
\* is refused like any other.
C30_NonReentrant ==
    [][\A u \in Tasks :
          LET p == ProcOf(u)
              lk == task'[u].lockKey
          IN  /\ (RemoteAttempt(u) /\ RemoteLive(StoreOf(p)[lk], now)) =>
                    /\ AttemptRefused(u)
                    /\ UNCHANGED <<redis, memory>>
              /\ (DbPass(u) /\ Unexpired(dbLocks[p][lk], now)) =>
                    /\ AttemptRefused(u)
                    /\ dbLocks'[p][lk] = dbLocks[p][lk]
              /\ (AcquireStep(u) /\ task'[u].pc = "done"
                    /\ \/ RemoteAttempt(u) /\ RemoteLive(StoreOf(p)[lk], now)
                       \/ DbPass(u) /\ Unexpired(dbLocks[p][lk], now)) =>
                    task'[u].lockAcquired = "false"]_vars

\* C30 witness: while a handler of a coordinator runs under that
\* coordinator's own record in the remote store, a second acquire of the
\* same key by the same coordinator has returned false, and the record still
\* has the expiry it was granted with
C30_Witness ==
    \E t, u \in Tasks :
        /\ t # u /\ ProcOf(t) = ProcOf(u)
        /\ Executing(t, task[u].key) /\ task[t].lockAcquired = "true"
        /\ task[u].pc = "done" /\ task[u].lockAcquired = "false"
        /\ ~task[u].fellBack /\ cacheManager[ProcOf(u)]
        /\ now >= TickMs
        /\ grants[ProcOf(t)][task[t].key].store = "cacheManager"
        /\ StoreOf(ProcOf(u))[task[t].lockKey] = GrantRecord(ProcOf(t), task[t].key)

\* C31: release undoes acquire in the same store.  When a release(k) of a
\* coordinator with a remote store completes, answered by that store, and no
\* acquire(k) of the coordinator has returned true since the release was
\* called, no record of k is left in the coordinator's fallback Map: the
\* record a fallback acquire put there is removed by the release that
\* follows it.
C31_ReleaseUndoesFallback ==
    [][\A t \in Tasks :
          LET p == ProcOf(t)
              r == task[t]
          IN  (/\ cacheManager[p] /\ remoteUp
               /\ r.pc = "releasing" /\ task'[t].pc = "done"
               /\ r.key \in Keys /\ lease[p][r.key] = NoLease)
                  => dbLocks'[p][r.lockKey] = NoLock]_vars

\* C32: no double hold across an outage.  A process never has two of its
\* handlers running on the same key at once, one under the process's
\* unexpired record in the remote store and the other under an unexpired
\* record in its fallback Map: the second acquire returned false.
C32_NoDoubleHold ==
    \A t, u \in Tasks :
        LET p == ProcOf(t)
            lk == task[t].lockKey
        IN  ~(/\ t # u /\ ProcOf(u) = p /\ cacheManager[p]
              /\ Executing(t, task[u].key) /\ task[t].lockAcquired = "true"
              /\ Executing(u, task[t].key) /\ task[u].lockAcquired = "true"
              /\ ~task[t].fellBack /\ task[u].fellBack
              /\ RemoteLive(StoreOf(p)[lk], now) /\ StoreOf(p)[lk].instanceId = InstanceId(p)
              /\ Unexpired(dbLocks[p][lk], now))

\* The record of `key` in the store behind p's cacheManager is the one
\* written by the latest acquire of process p that returned true, and no
\* release of it was called
LatestGrantRecord(p, key) ==
    /\ grants[p][key].store = "cacheManager"
    /\ StoreOf(p)[LockKey(key)] = GrantRecord(p, key)

\* C33: release is scoped to the acquisition.  A release(k) that is in
\* flight on behalf of one execution neither takes for its own, at its owner
\* comparison, nor removes the record of k that a later acquire of the same
\* process created after that release was called, while a handler of the
\* process runs under that record.
C33_ReleaseScoped ==
    [][\A t, u \in Tasks :
          LET p == ProcOf(t)
              r == task[t]
          IN  (/\ t # u /\ ProcOf(u) = p
               /\ r.pc = "releasing" /\ task'[t] # r
               /\ Executing(u, r.key) /\ task[u].lockAcquired = "true"
               /\ ~task[u].fellBack
               /\ LatestGrantRecord(p, r.key))
                  => /\ StoreOf(p)'[r.lockKey] = StoreOf(p)[r.lockKey]
                     /\ task'[t].relDel <= r.relDel]_vars

\* The second of the two releaseLock calls that tap made for one successful
\* execution is the only one still in flight, and the first raised nothing
SecondReleasePending(r) ==
    /\ r.pc = "releasing" /\ r.releaseCalls = 2
    /\ r.relGet + r.relDel = 1
    /\ ~r.unhandled

\* C34: release idempotence.  The second of two release(k) calls in a row
\* raises nothing and adds nothing to what the first did: a step of the
\* second release of the gate's pair leaves no rejection behind, leaves the
\* remote store as it is when the record of k is already gone and never
\* touches a Map; on the Map, releasing twice gives the Map that releasing
\* once gives.
C34_ReleaseIdempotent ==
    [][\A t \in Tasks :
          LET r == task[t]
              p == ProcOf(t)
          IN  /\ (SecondReleasePending(r) /\ task'[t] # r) =>
                    /\ ~task'[t].unhandled
                    /\ StoreOf(p)[r.lockKey] = NoLock => UNCHANGED <<redis, memory>>
                    /\ StoreOf(p)' \in {StoreOf(p), CacheDel(StoreOf(p), r.lockKey)}
                    /\ \A q \in Procs \ {p} : StoreOf(q)' \in {StoreOf(q), StoreOf(p)'}
                    /\ dbLocks' = dbLocks
              /\ \A lk \in LockKeys :
                    DbRelease(DbRelease(dbLocks[p], lk, InstanceId(p)), lk, InstanceId(p))
                        = DbRelease(dbLocks[p], lk, InstanceId(p))]_vars

\* What a single-attempt acquire(key) of process p returns when it runs from
\* this state with nothing in between and the store's reachability as it is:
\* the remote store's answer to the get, or one pass over the Map
AcquireWouldGrant(p, key) ==
    IF cacheManager[p] /\ remoteUp
    THEN CacheGet(StoreOf(p), LockKey(key), now) = "undefined"
    ELSE DbLockFree(cleanupExpiredLocks(dbLocks[p], now), LockKey(key), now)

\* C35: isLocked agrees with acquire.  isLocked(k) returns false exactly
\* when a single-attempt acquire(k) of the same coordinator, run right after
\* it with the remote store as reachable as before, returns true; and the
\* acquire attempts do return what that comparison says.
C35_IsLockedAgrees ==
    [][\A u \in Tasks :
          LET p == ProcOf(u) IN
          /\ \A k \in Keys :
                IsLockedReturn(u, k) =>
                    ((task'[u].outcome = "false") <=> AcquireWouldGrant(p, k))
          /\ (AcquireStep(u) /\ ~Acquiring(task[u]) /\ ~cacheManager[p]) =>
                (Granted(u) <=> AcquireWouldGrant(p, task'[u].key))
          /\ RemoteAttempt(u) =>
                ((task'[u].pc = "acq_set") <=> AcquireWouldGrant(p, task[u].key))]_vars

\* The instance ids of the running coordinators
InstanceIds == {InstanceId(p) : p \in Procs}

\* C36: owner identity is stable.  Every record in the remote store carries
\* the instance id of one coordinator and every record in a Map the id of
\* the Map's own coordinator; a record is written only by an acquire and
\* carries the id of the coordinator that acquires; and the owner comparison
\* of release goes on to the delete exactly when the record it got is
\* unexpired and carries the releasing coordinator's id.
C36_OwnerIdentityStable ==
    [][/\ \A p \in Procs, lk \in LockKeys :
            /\ StoreOf(p)[lk] # NoLock => StoreOf(p)[lk].instanceId \in InstanceIds
            /\ (StoreOf(p)'[lk] # StoreOf(p)[lk] /\ StoreOf(p)'[lk] # NoLock) =>
                  \E u \in Tasks :
                      /\ RemoteWrite(u) /\ task[u].lockKey = lk
                      /\ remoteStore.shared \/ ProcOf(u) = p
                      /\ StoreOf(p)'[lk].instanceId = Self(u)
       /\ \A p \in Procs, lk \in LockKeys :
            /\ dbLocks[p][lk] # NoLock => dbLocks[p][lk].instanceId = InstanceId(p)
            /\ (dbLocks'[p][lk] # dbLocks[p][lk] /\ dbLocks'[p][lk] # NoLock) =>
                  \E u \in Tasks :
                      /\ ProcOf(u) = p /\ DbPass(u) /\ task'[u].lockKey = lk
                      /\ dbLocks'[p][lk].instanceId = Self(u)
       /\ \A t \in Tasks :
            LET r == task[t] IN
            (r.pc = "releasing" /\ r.relGet > 0 /\ remoteUp /\ task'[t] # r
                /\ task'[t].relGet < r.relGet) =>
                ((task'[t].relDel > r.relDel) <=>
                    /\ RemoteLive(StoreOf(ProcOf(t))[r.lockKey], now)
                    /\ StoreOf(ProcOf(t))[r.lockKey].instanceId = Self(t))]_vars

\* C36 witness: the record of one coordinator's running handler carries that
\* coordinator's id while the release of another coordinator's handler, on
\* another key, has matched its own id on its record and is about to delete
C36_Witness ==
    \E t, u \in Tasks :
        /\ ProcOf(t) # ProcOf(u)
        /\ Executing(u, task[u].key) /\ task[u].lockAcquired = "true"
        /\ StoreOf(ProcOf(u))[task[u].lockKey] # NoLock
        /\ StoreOf(ProcOf(u))[task[u].lockKey].instanceId = Self(u)
        /\ task[t].pc = "releasing" /\ task[t].relDel > 0
        /\ task[t].key # task[u].key
        /\ StoreOf(ProcOf(t))[task[t].lockKey] # NoLock
        /\ StoreOf(ProcOf(t))[task[t].lockKey].instanceId = Self(t)

====
